---------------------------- MODULE Spec2Model ----------------------------
(***************************************************************************)
(* A model of the Mandelbrot plotter of                                    *)
(*   src/Programming Rust/Chapter 2 - Tour of Rust/mandelbrot/src/main.rs  *)
(* (escape_time, pixel_to_point, render, parse_pair, parse_complex).       *)
(*                                                                         *)
(* An f64 is modelled as a binary floating-point number m * 2^e, written   *)
(* <<m, e>>, whose significand m has at most Precision bits; +, -, * and / *)
(* round their exact result to the nearest such number, ties to the even   *)
(* significand, as IEEE 754 prescribes.  An f64 has 53 bits of precision;  *)
(* the model runs with fewer, because the integers of the model checker    *)
(* have 32 bits.  The exponent is unbounded: infinities, NaN, subnormal    *)
(* numbers and the sign of zero are outside the model.                     *)
(***************************************************************************)
EXTENDS Integers, Sequences, FiniteSets, TLC

VARIABLES
    et_c,       \* escape_time: the argument c
    et_limit,   \* escape_time: the argument limit
    et_ret,     \* escape_time: the value returned (NoCall before the call)
    pp_in,      \* pixel_to_point: the arguments
    pp_ret,     \* pixel_to_point: the value returned
    ps_s,       \* parse_pair: the argument s, a sequence of UTF-8 bytes
    ps_sep,     \* parse_pair: the argument separator, the bytes of one char
    ps_ret,     \* parse_pair: the target type T and the outcome
    pc_ret,     \* parse_complex(s): the outcome
    r_args,     \* render: bounds, upper_left, lower_right of the calls
    r_prior,    \* render: the buffers as they were before the calls
    r_pixels,   \* render: the buffers, one per call
    r_call,     \* render: the call in progress (1 or 2)
    r_pc,       \* render: "enter", "loop", "returned", "panicked"
    r_row,      \* render: the loop variable row
    r_column,   \* render: the loop variable column
    b_args,     \* banded render: bounds and viewport of the whole image
    b_tops,     \* banded render: first row of every band, then height
    b_pixels,   \* banded render: the buffer the bands are slices of
    b_whole,    \* banded render: the buffer of the one-call render
    b_pc,       \* banded render: per worker, "enter", "loop", "returned"
    b_row,      \* banded render: per worker, its loop variable row
    b_column,   \* banded render: per worker, its loop variable column
    b_writes    \* banded render: the slots of b_pixels each worker wrote

vars == <<et_c, et_limit, et_ret, pp_in, pp_ret, ps_s, ps_sep, ps_ret, pc_ret,
          r_args, r_prior, r_pixels, r_call, r_pc, r_row, r_column,
          b_args, b_tops, b_pixels, b_whole, b_pc, b_row, b_column, b_writes>>

et_vars == <<et_c, et_limit, et_ret>>
pp_vars == <<pp_in, pp_ret>>
ps_vars == <<ps_s, ps_sep, ps_ret, pc_ret>>
r_vars  == <<r_args, r_prior, r_pixels, r_call, r_pc, r_row, r_column>>
b_vars  == <<b_args, b_tops, b_pixels, b_whole, b_pc, b_row, b_column, b_writes>>

-----------------------------------------------------------------------------
(* Option<T> *)

None == [tag |-> "None", val |-> 0]

Some(v) == [tag |-> "Some", val |-> v]

NoCall == [tag |-> "NoCall", val |-> 0]

-----------------------------------------------------------------------------
(* f64: binary floating point, round to nearest, ties to even *)

\* the number of bits of a significand (53 in an f64)
Precision == 8

Abs(x) == IF x < 0 THEN -x ELSE x

Sgn(x) == IF x < 0 THEN -1 ELSE 1

RECURSIVE Pow2(_)
Pow2(k) == IF k = 0 THEN 1 ELSE 2 * Pow2(k - 1)

\* the number of bits of n >= 0
RECURSIVE BitLen(_)
BitLen(n) == IF n = 0 THEN 0 ELSE 1 + BitLen(n \div 2)

\* m * 2^e written with an odd significand (zero is <<0, 0>>)
RECURSIVE Canon(_, _)
Canon(m, e) ==
    IF m = 0 THEN <<0, 0>>
    ELSE IF Abs(m) % 2 = 0 THEN Canon(Sgn(m) * (Abs(m) \div 2), e + 1)
    ELSE <<m, e>>

\* the float nearest to m * 2^e, ties to even
RoundTo(m, e) ==
    LET a == Abs(m)
        s == BitLen(a) - Precision
    IN  IF s <= 0 THEN Canon(m, e)
        ELSE LET q    == a \div Pow2(s)
                 rem  == a % Pow2(s)
                 half == Pow2(s - 1)
                 up   == IF rem > half \/ (rem = half /\ q % 2 = 1) THEN 1 ELSE 0
             IN  Canon(Sgn(m) * (q + up), e + s)

\* the float nearest to (n / d) * 2^e, for integers n and d /= 0: a quotient
\* of Precision + 2 bits or more, and one more bit that says whether the
\* division left a remainder
QuotRound(n, d, e) ==
    LET k   == IF Precision + 2 + BitLen(Abs(d)) > BitLen(Abs(n))
               THEN Precision + 2 + BitLen(Abs(d)) - BitLen(Abs(n)) ELSE 0
        num == Abs(n) * Pow2(k)
        q   == num \div Abs(d)
        st  == IF num % Abs(d) = 0 THEN 0 ELSE 1
    IN  RoundTo(Sgn(n) * Sgn(d) * (2 * q + st), e - k - 1)

\* "n as f64", n being a usize
F(n) == RoundTo(n, 0)

FNeg(a) == <<-a[1], a[2]>>

\* a + b: the exact sum is rounded; an operand too small to reach half a
\* unit in the last place of the other leaves it unchanged
FAdd(a, b) ==
    IF a[1] = 0 THEN b
    ELSE IF b[1] = 0 THEN a
    ELSE LET hi == IF a[2] >= b[2] THEN a ELSE b
             lo == IF a[2] >= b[2] THEN b ELSE a
             d  == hi[2] - lo[2]
         IN  IF d > 2 * Precision THEN hi
             ELSE RoundTo(hi[1] * Pow2(d) + lo[1], lo[2])

FSub(a, b) == FAdd(a, FNeg(b))

FMul(a, b) == RoundTo(a[1] * b[1], a[2] + b[2])

\* b /= 0
FDiv(a, b) == QuotRound(a[1], b[1], a[2] - b[2])

\* a > b: the difference of two floats rounds to zero only if it is zero
FGt(a, b) == FSub(a, b)[1] > 0

-----------------------------------------------------------------------------
(* num::Complex<f64> *)

Complex(re, im) == [re |-> re, im |-> im]

CAdd(a, b) == Complex(FAdd(a.re, b.re), FAdd(a.im, b.im))

CMul(a, b) ==
    Complex(FSub(FMul(a.re, b.re), FMul(a.im, b.im)),
            FAdd(FMul(a.re, b.im), FMul(a.im, b.re)))

norm_sqr(z) == FAdd(FMul(z.re, z.re), FMul(z.im, z.im))

-----------------------------------------------------------------------------
(* Bounds of the inputs the specifications draw *)

\* escape_time is applied to c = a/2 + (b/2)i with a, b in -MaxCoord..MaxCoord
MaxCoord == 5

\* and to the limits 0..MaxLimit, and 255
MaxLimit == 4

\* an image is 0..MaxDim pixels wide and 0..MaxDim pixels high
MaxDim == 2

\* the corners of a viewport have coordinates in -MaxView..MaxView
MaxView == 2

\* an image rendered in bands is 1..MaxRows pixels high
MaxRows == 3

\* a string given to the parsers has up to MaxChars characters
MaxChars == 4

\* a buffer handed to render is up to MaxSlack bytes shorter or longer than
\* width * height
MaxSlack == 1

-----------------------------------------------------------------------------
(* escape_time, main.rs 239-268 *)

\* the limit render passes: escape_time(point, 255)
Limit == 255

CZero == Complex(F(0), F(0))

\* The loop "for i in 0..limit" is run one iteration at a time on the frame
\* st = [i, z, ret]: the loop variable, the local z, and the value returned
\* (NoCall while the loop runs).  One step is the loop's exit test, or the
\* body of iteration i.
escape_step_ge(c, limit, st) ==
    IF st.ret.tag /= "NoCall" THEN st
    ELSE IF st.i >= limit THEN [st EXCEPT !.ret = None]
    ELSE IF ~ FGt(F(4), norm_sqr(st.z)) THEN [st EXCEPT !.ret = Some(st.i)]
    ELSE [st EXCEPT !.i = st.i + 1, !.z = CAdd(CMul(st.z, st.z), c)]

escape_step_update_first(c, limit, st) ==
    IF st.ret.tag /= "NoCall" THEN st
    ELSE IF st.i >= limit THEN [st EXCEPT !.ret = None]
    ELSE IF FGt(norm_sqr(CAdd(CMul(st.z, st.z), c)), F(4))
         THEN [st EXCEPT !.ret = Some(st.i)]
    ELSE [st EXCEPT !.i = st.i + 1, !.z = CAdd(CMul(st.z, st.z), c)]

escape_step_count_at_end(c, limit, st) ==
    IF st.ret.tag /= "NoCall" THEN st
    ELSE IF st.i >= limit THEN [st EXCEPT !.ret = Some(limit)]
    ELSE IF FGt(norm_sqr(st.z), F(4)) THEN [st EXCEPT !.ret = Some(st.i)]
    ELSE [st EXCEPT !.i = st.i + 1, !.z = CAdd(CMul(st.z, st.z), c)]

escape_step(c, limit, st) ==
    IF st.ret.tag /= "NoCall" THEN st
    ELSE IF st.i >= limit THEN [st EXCEPT !.ret = None]
    ELSE IF FGt(norm_sqr(st.z), F(4)) THEN [st EXCEPT !.ret = Some(st.i)]
    ELSE [st EXCEPT !.i = st.i + 1, !.z = CAdd(CMul(st.z, st.z), c)]

\* n steps of the loop from frame st (halved, to keep the evaluation shallow)
RECURSIVE escape_run(_, _, _, _)
escape_run(c, limit, st, n) ==
    IF n = 0 THEN st
    ELSE IF n = 1 THEN escape_step(c, limit, st)
    ELSE LET half == escape_run(c, limit, st, n \div 2)
         IN  IF half.ret.tag = "NoCall"
             THEN escape_run(c, limit, half, n - n \div 2)
             ELSE half

\* "let mut z = Complex { re: 0.0, im: 0.0 }", then the loop to its end: at
\* most limit bodies and one exit test
escape_time(c, limit) ==
    escape_run(c, limit, [i |-> 0, z |-> CZero, ret |-> NoCall], limit + 1).ret

\* the points escape_time is applied to: a/2 + (b/2)i
EscapePoints ==
    {Complex(Canon(a, -1), Canon(b, -1)) :
        a \in -MaxCoord..MaxCoord, b \in -MaxCoord..MaxCoord}

EscapeLimits == (0..MaxLimit) \cup {Limit}

EtIdle == et_c = CZero /\ et_limit = 0 /\ et_ret = NoCall

EtInit ==
    /\ et_c \in EscapePoints
    /\ et_limit \in EscapeLimits
    /\ et_ret = NoCall

\* a caller evaluates escape_time(et_c, et_limit)
EscapeCall ==
    /\ et_ret.tag = "NoCall"
    /\ et_ret' = escape_time(et_c, et_limit)
    /\ UNCHANGED <<et_c, et_limit, pp_vars, ps_vars, r_vars, b_vars>>

-----------------------------------------------------------------------------
(* pixel_to_point, main.rs 117-133 *)

\* bounds = <<width, height>>, pixel = <<column, row>>
pixel_to_point_minus_one(bounds, pixel, upper_left, lower_right) ==
    LET width  == FSub(lower_right.re, upper_left.re)
        height == FSub(upper_left.im, lower_right.im)
    IN  Complex(FAdd(upper_left.re,
                     FDiv(FMul(F(pixel[1]), width), F(bounds[1] + 1))),
                FSub(upper_left.im,
                     FDiv(FMul(F(pixel[2]), height), F(bounds[2] + 1))))

pixel_to_point(bounds, pixel, upper_left, lower_right) ==
    LET width  == FSub(lower_right.re, upper_left.re)
        height == FSub(upper_left.im, lower_right.im)
    IN  Complex(FAdd(upper_left.re,
                     FDiv(FMul(F(pixel[1]), width), F(bounds[1]))),
                FSub(upper_left.im,
                     FDiv(FMul(F(pixel[2]), height), F(bounds[2]))))

\* the arguments of test_pixel_to_point (main.rs 135-141)
TestPoint ==
    [bounds |-> <<100, 100>>, pixel |-> <<25, 75>>,
     upper_left |-> Complex(F(-1), F(1)), lower_right |-> Complex(F(1), F(-1))]

Corners == {Complex(F(a), F(b)) : a \in -MaxView..MaxView, b \in -MaxView..MaxView}

\* width > 0, height > 0, 0 <= column < width, 0 <= row < height
PointArgs ==
    {TestPoint} \cup
    [bounds : (1..(MaxDim + 1)) \X (1..(MaxDim + 1)),
     pixel : (0..MaxDim) \X (0..MaxDim),
     upper_left : Corners, lower_right : Corners]

PpIdle == pp_in = TestPoint /\ pp_ret = NoCall

PpInit ==
    /\ pp_in \in PointArgs
    /\ pp_in.pixel[1] < pp_in.bounds[1]
    /\ pp_in.pixel[2] < pp_in.bounds[2]
    /\ pp_ret = NoCall

\* a caller evaluates pixel_to_point(bounds, pixel, upper_left, lower_right)
PointCall ==
    /\ pp_ret.tag = "NoCall"
    /\ pp_ret' = Some(pixel_to_point(pp_in.bounds, pp_in.pixel,
                                     pp_in.upper_left, pp_in.lower_right))
    /\ UNCHANGED <<pp_in, et_vars, ps_vars, r_vars, b_vars>>

-----------------------------------------------------------------------------
(* render, main.rs 77-104 *)

\* assert!(pixels.len() == bounds.0 * bounds.1), len being pixels.len()
size_ok_at_least(len, bounds) == len >= bounds[1] * bounds[2]

size_ok(len, bounds) == len = bounds[1] * bounds[2]

\* match escape_time(point, 255) { None => 0, Some(count) => 255 - count as u8 }
\* "count as u8" keeps the low 8 bits of count
pixel_value_not_inverted(et) == IF et.tag = "None" THEN 0 ELSE et.val % 256

pixel_value(et) == IF et.tag = "None" THEN 0 ELSE 255 - (et.val % 256)

\* viewports with upper_left = -k + ki and lower_right = m - mi
Viewports ==
    {[upper_left |-> Complex(F(-k), F(k)), lower_right |-> Complex(F(m), F(-m))] :
        k \in 0..MaxView, m \in 0..MaxView}

\* the ways to cut rows 0..height-1 into contiguous non-empty bands: the
\* first row of every band, in order, followed by height
Partitions(height) ==
    {s \in UNION {[1..n -> 0..height] : n \in 2..(height + 1)} :
        /\ s[1] = 0
        /\ s[Len(s)] = height
        /\ \A i \in 1..(Len(s) - 1) : s[i] < s[i + 1]}

band_top(tops, k) == tops[k]

band_height(tops, k) == tops[k + 1] - tops[k]

\* The arguments of worker k's call of render.  Worker 0 renders the whole
\* image into b_whole; worker k >= 1 renders band k into its slice of
\* b_pixels, the band's corners being pixel_to_point of the whole image.
call_bounds(args, tops, k) ==
    IF k = 0 THEN args.bounds ELSE <<args.bounds[1], band_height(tops, k)>>

call_upper_left(args, tops, k) ==
    IF k = 0 THEN args.upper_left
    ELSE pixel_to_point(args.bounds, <<0, band_top(tops, k)>>,
                        args.upper_left, args.lower_right)

call_lower_right(args, tops, k) ==
    IF k = 0 THEN args.lower_right
    ELSE pixel_to_point(args.bounds,
                        <<args.bounds[1], band_top(tops, k) + band_height(tops, k)>>,
                        args.upper_left, args.lower_right)

\* the slice &mut pixels[base .. base + len] worker k is given
call_base(args, tops, k) == IF k = 0 THEN 0 ELSE band_top(tops, k) * args.bounds[1]

call_len(args, tops, k) ==
    IF k = 0 THEN args.bounds[1] * args.bounds[2]
    ELSE band_height(tops, k) * args.bounds[1]

\* the points of the pixels of an image
ImagePoints(bounds, upper_left, lower_right) ==
    {pixel_to_point(bounds, <<column, row>>, upper_left, lower_right) :
        column \in 0..(bounds[1] - 1), row \in 0..(bounds[2] - 1)}

\* the images render is called on, in one call
Images ==
    [bounds : (0..MaxDim) \X (0..MaxRows), upper_left : {v.upper_left : v \in Viewports},
     lower_right : {v.lower_right : v \in Viewports}]

\* the points of every image drawn, in one call or in bands
DrawnPoints ==
    UNION {UNION {UNION {ImagePoints(call_bounds(a, tops, k),
                                     call_upper_left(a, tops, k),
                                     call_lower_right(a, tops, k)) :
                            k \in 0..(Len(tops) - 1)} :
                     tops \in Partitions(a.bounds[2])} :
              a \in Images}

\* escape_time(point, 255) is evaluated once per point of the images drawn
\* and looked up afterwards; any other point is evaluated in place
EscapeAtLimit == [c \in DrawnPoints |-> escape_time(c, Limit)]

escape_time_at_limit(point) ==
    IF point \in DOMAIN EscapeAtLimit THEN EscapeAtLimit[point]
    ELSE escape_time(point, Limit)

\* the byte the loop body computes for (column, row)
pixel_byte(bounds, column, row, upper_left, lower_right) ==
    pixel_value(escape_time_at_limit(pixel_to_point(bounds, <<column, row>>,
                                                    upper_left, lower_right)))

\* pixels[row * bounds.0 + column] = v, on the slice of buf that starts at
\* base (buf is 1-based, the slice 0-based)
store_pixel_unless_black(buf, base, bounds, column, row, v) ==
    IF v = 0 THEN buf
    ELSE [buf EXCEPT ![base + row * bounds[1] + column + 1] = v]

store_pixel(buf, base, bounds, column, row, v) ==
    [buf EXCEPT ![base + row * bounds[1] + column + 1] = v]

\* "for row in 0..bounds.1 { for column in 0..bounds.0 {": whether the loops
\* have an iteration left at (column, row)
in_loop_one_more_row(bounds, column, row) == row <= bounds[2] /\ column < bounds[1]

in_loop(bounds, column, row) == row < bounds[2] /\ column < bounds[1]

\* the loop variables after the body ran at (column, row)
next_column(bounds, column) == IF column + 1 < bounds[1] THEN column + 1 ELSE 0

next_row(bounds, column, row) == IF column + 1 < bounds[1] THEN row ELSE row + 1

\* the bytes a buffer holds before render is called on it
PriorBytes == {0, 200}

Fill(len, b) == [i \in 1..len |-> b]

RIdle ==
    /\ r_args = [bounds |-> <<0, 0>>, upper_left |-> CZero, lower_right |-> CZero]
    /\ r_prior = <<>>
    /\ r_pixels = <<>>
    /\ r_call = 0
    /\ r_pc = "idle"
    /\ r_row = 0
    /\ r_column = 0

\* Two calls of render with the same bounds and viewport, each on a buffer
\* of its own; the buffers have one length and any prior content.
RInit ==
    /\ \E w \in 0..MaxDim, h \in 0..MaxDim, v \in Viewports :
          /\ r_args = [bounds |-> <<w, h>>, upper_left |-> v.upper_left,
                       lower_right |-> v.lower_right]
    /\ \E len \in 0..(MaxDim * MaxDim + MaxSlack), b1 \in PriorBytes, b2 \in PriorBytes :
          /\ len + MaxSlack >= r_args.bounds[1] * r_args.bounds[2]
          /\ len <= r_args.bounds[1] * r_args.bounds[2] + MaxSlack
          /\ r_prior = <<Fill(len, b1), Fill(len, b2)>>
    /\ r_pixels = r_prior
    /\ r_call = 1
    /\ r_pc = "enter"
    /\ r_row = 0
    /\ r_column = 0

\* the assertion at the head of render: it panics, or the loops start
RenderEnter ==
    /\ r_pc = "enter"
    /\ r_pc' = IF size_ok(Len(r_pixels[r_call]), r_args.bounds)
               THEN "loop" ELSE "panicked"
    /\ r_row' = 0
    /\ r_column' = 0
    /\ UNCHANGED <<r_args, r_prior, r_pixels, r_call, et_vars, pp_vars, ps_vars, b_vars>>

\* one run of the loop body; the index expression panics out of range
RenderPixel ==
    /\ r_pc = "loop"
    /\ in_loop(r_args.bounds, r_column, r_row)
    /\ LET v == pixel_byte(r_args.bounds, r_column, r_row,
                           r_args.upper_left, r_args.lower_right)
       IN  IF r_row * r_args.bounds[1] + r_column < Len(r_pixels[r_call])
           THEN /\ r_pixels' = [r_pixels EXCEPT ![r_call] =
                                  store_pixel(@, 0, r_args.bounds, r_column, r_row, v)]
                /\ r_column' = next_column(r_args.bounds, r_column)
                /\ r_row' = next_row(r_args.bounds, r_column, r_row)
                /\ r_pc' = "loop"
           ELSE /\ r_pc' = "panicked"
                /\ UNCHANGED <<r_pixels, r_column, r_row>>
    /\ UNCHANGED <<r_args, r_prior, r_call, et_vars, pp_vars, ps_vars, b_vars>>

\* the loops are over: render returns
RenderReturn ==
    /\ r_pc = "loop"
    /\ ~ in_loop(r_args.bounds, r_column, r_row)
    /\ r_pc' = "returned"
    /\ UNCHANGED <<r_args, r_prior, r_pixels, r_call, r_row, r_column, et_vars, pp_vars, ps_vars, b_vars>>

\* the caller makes the second call, on the second buffer
RenderAgain ==
    /\ r_pc = "returned"
    /\ r_call = 1
    /\ r_call' = 2
    /\ r_pc' = "enter"
    /\ UNCHANGED <<r_args, r_prior, r_pixels, r_row, r_column, et_vars, pp_vars, ps_vars, b_vars>>

-----------------------------------------------------------------------------
(* render on row bands: one worker per band, each calling render on its    *)
(* slice of the buffer (spec.md, sections 4.5, 5 and 8)                    *)

Workers == 0..(Len(b_tops) - 1)

BIdle ==
    /\ b_args = [bounds |-> <<0, 0>>, upper_left |-> CZero, lower_right |-> CZero]
    /\ b_tops = <<0>>
    /\ b_pixels = <<>>
    /\ b_whole = <<>>
    /\ b_pc = <<>>
    /\ b_row = <<>>
    /\ b_column = <<>>
    /\ b_writes = {}

BInit ==
    /\ \E w \in 1..MaxDim, h \in 1..MaxRows, v \in Viewports :
          /\ b_args = [bounds |-> <<w, h>>, upper_left |-> v.upper_left,
                       lower_right |-> v.lower_right]
    /\ b_tops \in Partitions(b_args.bounds[2])
    /\ \E b \in PriorBytes :
          b_pixels = Fill(b_args.bounds[1] * b_args.bounds[2], b)
    /\ b_whole = Fill(b_args.bounds[1] * b_args.bounds[2], 0)
    /\ b_pc = [k \in Workers |-> "enter"]
    /\ b_row = [k \in Workers |-> 0]
    /\ b_column = [k \in Workers |-> 0]
    /\ b_writes = {}

\* worker k's call reaches the assertion of render; the one-call render is
\* made first, the band workers then run in any order
BandEnter(k) ==
    /\ b_pc[k] = "enter"
    /\ k > 0 => b_pc[0] = "returned"
    /\ b_pc' = [b_pc EXCEPT ![k] =
                  IF size_ok(call_len(b_args, b_tops, k), call_bounds(b_args, b_tops, k))
                  THEN "loop" ELSE "panicked"]
    /\ UNCHANGED <<b_args, b_tops, b_pixels, b_whole, b_row, b_column, b_writes, et_vars, pp_vars, ps_vars, r_vars>>

\* worker k runs the loop body once; the index expression panics out of the
\* range of the worker's slice
BandPixel(k) ==
    /\ b_pc[k] = "loop"
    /\ in_loop(call_bounds(b_args, b_tops, k), b_column[k], b_row[k])
    /\ LET bounds == call_bounds(b_args, b_tops, k)
           base   == call_base(b_args, b_tops, k)
           v      == pixel_byte(bounds, b_column[k], b_row[k],
                                call_upper_left(b_args, b_tops, k),
                                call_lower_right(b_args, b_tops, k))
       IN  IF b_row[k] * bounds[1] + b_column[k] < call_len(b_args, b_tops, k)
           THEN /\ IF k = 0
                   THEN /\ b_whole' = store_pixel(b_whole, base, bounds,
                                                  b_column[k], b_row[k], v)
                        /\ UNCHANGED <<b_pixels, b_writes>>
                   ELSE /\ b_pixels' = store_pixel(b_pixels, base, bounds,
                                                   b_column[k], b_row[k], v)
                        /\ b_writes' = b_writes \cup
                              {<<k, base + b_row[k] * bounds[1] + b_column[k]>>}
                        /\ UNCHANGED b_whole
                /\ b_column' = [b_column EXCEPT ![k] = next_column(bounds, @)]
                /\ b_row' = [b_row EXCEPT ![k] = next_row(bounds, b_column[k], @)]
                /\ UNCHANGED b_pc
           ELSE /\ b_pc' = [b_pc EXCEPT ![k] = "panicked"]
                /\ UNCHANGED <<b_pixels, b_whole, b_writes, b_column, b_row>>
    /\ UNCHANGED <<b_args, b_tops, et_vars, pp_vars, ps_vars, r_vars>>

\* worker k's call returns
BandReturn(k) ==
    /\ b_pc[k] = "loop"
    /\ ~ in_loop(call_bounds(b_args, b_tops, k), b_column[k], b_row[k])
    /\ b_pc' = [b_pc EXCEPT ![k] = "returned"]
    /\ UNCHANGED <<b_args, b_tops, b_pixels, b_whole, b_row, b_column, b_writes, et_vars, pp_vars, ps_vars, r_vars>>

-----------------------------------------------------------------------------
(* parse_pair, main.rs 178-215, and parse_complex, main.rs 148-157 *)

\* A &str is the sequence of the bytes of its UTF-8 encoding, a char the
\* bytes of its encoding.
Panic == [tag |-> "Panic", val |-> 0]

Err == [tag |-> "Err", val |-> 0]

Ok(v) == [tag |-> "Ok", val |-> v]

\* s[from..to], 0-based and half-open as in Rust
Bytes(s, from, to) == SubSeq(s, from + 1, to)

\* str::find(char): the byte index of the first occurrence
find_last(s, separator) ==
    LET at == {i \in 0..(Len(s) - Len(separator)) :
                  Bytes(s, i, i + Len(separator)) = separator}
    IN  IF at = {} THEN None
        ELSE Some(CHOOSE i \in at : \A j \in at : j <= i)

find(s, separator) ==
    LET at == {i \in 0..(Len(s) - Len(separator)) :
                  Bytes(s, i, i + Len(separator)) = separator}
    IN  IF at = {} THEN None
        ELSE Some(CHOOSE i \in at : \A j \in at : i <= j)

\* str::is_char_boundary: the start, the end, or a byte that is no UTF-8
\* continuation byte (10xxxxxx); slicing a &str elsewhere panics
is_char_boundary(s, index) ==
    \/ index = 0
    \/ index = Len(s)
    \/ index < Len(s) /\ s[index + 1] \notin 128..191

IsDigit(b) == b \in 48..57

IsSign(b) == b \in {43, 45}

AllDigits(b) == \A i \in 1..Len(b) : IsDigit(b[i])

RECURSIVE DigitsValue(_)
DigitsValue(b) ==
    IF b = <<>> THEN 0
    ELSE 10 * DigitsValue(SubSeq(b, 1, Len(b) - 1)) + (b[Len(b)] - 48)

RECURSIVE Pow10(_)
Pow10(n) == IF n = 0 THEN 1 ELSE 10 * Pow10(n - 1)

Unsigned(b) == IF b /= <<>> /\ IsSign(b[1]) THEN Tail(b) ELSE b

Sign(b) == IF b /= <<>> /\ b[1] = 45 THEN -1 ELSE 1

\* <i32 as FromStr>::from_str: an optional sign, then one or more digits
\* (the strings drawn are too short to overflow an i32)
i32_from_str(b) ==
    LET digits == Unsigned(b)
    IN  IF digits = <<>> \/ ~ AllDigits(digits) THEN Err
        ELSE Ok(Sign(b) * DigitsValue(digits))

\* <f64 as FromStr>::from_str on strings that hold no letter: an optional
\* sign, then digits with at most one '.', one digit at least.  The value
\* is the f64 nearest to the fraction computed.
f64_from_str(b) ==
    LET body == Unsigned(b)
        dot  == find(body, <<46>>)
        int  == IF dot.tag = "None" THEN body ELSE Bytes(body, 0, dot.val)
        frac == IF dot.tag = "None" THEN <<>>
                ELSE Bytes(body, dot.val + 1, Len(body))
    IN  IF ~ AllDigits(int) \/ ~ AllDigits(frac) \/ Len(int) + Len(frac) = 0
        THEN Err
        ELSE Ok(QuotRound(Sign(b) * (DigitsValue(int) * Pow10(Len(frac))
                                       + DigitsValue(frac)),
                          Pow10(Len(frac)), 0))

\* T::from_str, T being "i32" or "f64"
from_str(T, b) == IF T = "i32" THEN i32_from_str(b) ELSE f64_from_str(b)

\* s[index + 1..] panics unless index + 1 is a char boundary; the two
\* from_str calls are evaluated before the match on their results
parse_pair_last(T, s, separator) ==
    LET found == find_last(s, separator)
        index == found.val
    IN  IF found.tag = "None" THEN None
        ELSE IF ~ is_char_boundary(s, index + 1) THEN Panic
        ELSE LET l == from_str(T, Bytes(s, 0, index))
                 r == from_str(T, Bytes(s, index + 1, Len(s)))
             IN  IF l.tag = "Ok" /\ r.tag = "Ok" THEN Some(<<l.val, r.val>>)
                 ELSE None

parse_pair(T, s, separator) ==
    LET found == find(s, separator)
        index == found.val
    IN  IF found.tag = "None" THEN None
        ELSE IF ~ is_char_boundary(s, index + 1) THEN Panic
        ELSE LET l == from_str(T, Bytes(s, 0, index))
                 r == from_str(T, Bytes(s, index + 1, Len(s)))
             IN  IF l.tag = "Ok" /\ r.tag = "Ok" THEN Some(<<l.val, r.val>>)
                 ELSE None

\* match parse_pair(s, ',') { Some((re, im)) => Some(Complex {re, im}), None => None }
parse_complex_swapped(s) ==
    LET pair == parse_pair("f64", s, <<44>>)
    IN  IF pair.tag = "Some" THEN Some(Complex(pair.val[2], pair.val[1]))
        ELSE pair

parse_complex(s) ==
    LET pair == parse_pair("f64", s, <<44>>)
    IN  IF pair.tag = "Some" THEN Some(Complex(pair.val[1], pair.val[2]))
        ELSE pair

\* the characters of the strings drawn: '1', '-', '.', ',' and the
\* two-byte e with acute accent
Chars == {<<49>>, <<45>>, <<46>>, <<44>>, <<195, 169>>}

RECURSIVE Concat(_)
Concat(cs) == IF cs = <<>> THEN <<>> ELSE Head(cs) \o Concat(Tail(cs))

Strings == {Concat(cs) : cs \in UNION {[1..n -> Chars] : n \in 0..MaxChars}}

\* the strings of test_parse_pair (main.rs 217-226) and "10,20,30"
TestStrings ==
    {<<>>, <<49, 48, 44>>, <<44, 49, 48>>, <<49, 48, 44, 50, 48>>,
     <<49, 48, 44, 50, 48, 120, 121>>, <<48, 46, 53, 120>>,
     <<48, 46, 53, 120, 49, 46, 53>>, <<49, 48, 44, 50, 48, 44, 51, 48>>}

\* the strings of test_parse_complex (main.rs 159-164): "1.25,-0.0625" and
\* ",-0.0625"
ComplexTestStrings ==
    {<<49, 46, 50, 53, 44, 45, 48, 46, 48, 54, 50, 53>>,
     <<44, 45, 48, 46, 48, 54, 50, 53>>}

Types == {"i32", "f64"}

NoPairCall == [T |-> "none", out |-> NoCall]

PsIdle == ps_s = <<>> /\ ps_sep = <<44>> /\ ps_ret = NoPairCall /\ pc_ret = NoCall

PsInit ==
    /\ \/ ps_s \in Strings /\ ps_sep \in Chars
       \/ ps_s \in TestStrings \cup ComplexTestStrings /\ ps_sep \in {<<44>>, <<120>>}
    /\ ps_ret = NoPairCall
    /\ pc_ret = NoCall

\* a caller evaluates parse_pair::<T>(ps_s, ps_sep)
ParsePairCall(T) ==
    /\ ps_ret.out.tag = "NoCall"
    /\ ps_ret' = [T |-> T, out |-> parse_pair(T, ps_s, ps_sep)]
    /\ UNCHANGED <<ps_s, ps_sep, pc_ret, et_vars, pp_vars, r_vars, b_vars>>

\* a caller evaluates parse_complex(ps_s)
ParseComplexCall ==
    /\ pc_ret.tag = "NoCall"
    /\ pc_ret' = parse_complex(ps_s)
    /\ UNCHANGED <<ps_s, ps_sep, ps_ret, et_vars, pp_vars, r_vars, b_vars>>

-----------------------------------------------------------------------------
(* The specifications: one per function under study *)

EscapeNext == EscapeCall

EscapeInit == PpIdle /\ PsIdle /\ RIdle /\ BIdle /\ EtInit

SpecEscape == EscapeInit /\ [][EscapeNext]_vars

PointNext == PointCall

PointInit == EtIdle /\ PsIdle /\ RIdle /\ BIdle /\ PpInit

SpecPoint == PointInit /\ [][PointNext]_vars

ParseNext ==
    \/ \E T \in Types : ParsePairCall(T)
    \/ ParseComplexCall

ParseInit == EtIdle /\ PpIdle /\ RIdle /\ BIdle /\ PsInit

SpecParse == ParseInit /\ [][ParseNext]_vars

RenderNext ==
    \/ RenderEnter
    \/ RenderPixel
    \/ RenderReturn
    \/ RenderAgain

RenderInit == EtIdle /\ PpIdle /\ PsIdle /\ BIdle /\ RInit

SpecRender == RenderInit /\ [][RenderNext]_vars

BandsNext ==
    \/ \E k \in Workers : BandEnter(k)
    \/ \E k \in Workers : BandPixel(k)
    \/ \E k \in Workers : BandReturn(k)

BandsInit == EtIdle /\ PpIdle /\ PsIdle /\ RIdle /\ BInit

SpecBands == BandsInit /\ [][BandsNext]_vars

-----------------------------------------------------------------------------
(* Properties of escape_time (SpecEscape) *)

\* z_n of the orbit z_0 = z, z_{k+1} = z_k * z_k + c (halved, to keep the
\* evaluation shallow; the test of half holds of every float, and makes
\* TLC evaluate half before it goes on)
RECURSIVE Iterate(_, _, _)
Iterate(c, z, n) ==
    IF n = 0 THEN z
    ELSE IF n = 1 THEN CAdd(CMul(z, z), c)
    ELSE LET half == Iterate(c, z, n \div 2)
         IN  IF Len(half.re) = 2 THEN Iterate(c, half, n - n \div 2) ELSE half

Orbit(c, n) == Iterate(c, CZero, n)

\* |z|^2 > 4, in f64 as the program computes it
Escaped(z) == FGt(FAdd(FMul(z.re, z.re), FMul(z.im, z.im)), F(4))

\* none of z_0 .. z_{n-1} of the orbit that starts at z has |z|^2 > 4
RECURSIVE Quiet(_, _, _)
Quiet(c, z, n) ==
    IF n = 0 THEN TRUE
    ELSE IF n = 1 THEN ~ Escaped(z)
    ELSE Quiet(c, z, n \div 2) /\ Quiet(c, Iterate(c, z, n \div 2), n - n \div 2)

EscapeReturned == et_ret.tag /= "NoCall"

\* C2: for a limit L >= 1, escape_time(c, L) returns Some(i) for the least
\* index i in [0, L) with |z_i|^2 > 4, z being the orbit of 0 under
\* z -> z*z + c, and None when no index in [0, L) has it; escape_time(0, 255)
\* is None.
C2_LeastEscapeIndex ==
    (EscapeReturned /\ et_limit >= 1) =>
        /\ et_ret.tag \in {"Some", "None"}
        /\ et_ret.tag = "Some" =>
              /\ et_ret.val \in 0..(et_limit - 1)
              /\ Escaped(Orbit(et_c, et_ret.val))
              /\ Quiet(et_c, CZero, et_ret.val)
        /\ et_ret.tag = "None" => Quiet(et_c, CZero, et_limit)
        /\ (et_c = CZero /\ et_limit = Limit) => et_ret = None

\* C2's case: a point that escapes after three updates, under the limit 255
C2_Witness ==
    /\ EscapeReturned
    /\ et_limit = Limit
    /\ et_c = Complex(F(1), F(0))
    /\ et_ret = Some(3)

\* C9 as stated: escape_time with limit 0 aborts and returns nothing
C9_LimitZeroAborts ==
    (EscapeReturned /\ et_limit = 0) => et_ret.tag = "Panic"

\* C9 amended: escape_time(c, 0) returns None for every c, and does not abort
C9_LimitZeroReturnsNone ==
    (EscapeReturned /\ et_limit = 0) => et_ret = None

\* C9's case: the call with limit 0 has returned, for a point outside the
\* circle of radius 2
C9_Witness ==
    /\ EscapeReturned
    /\ et_limit = 0
    /\ Escaped(et_c)

\* C10 as stated: for |c| > 2 and L >= 1, escape_time(c, L) is Some(0)
C10_EscapesAtZero ==
    (EscapeReturned /\ et_limit >= 1 /\ Escaped(et_c)) => et_ret = Some(0)

\* C10 amended: for c with c.re^2 + c.im^2 > 4, escape_time(c, L) is Some(1)
\* when L >= 2 and None when L = 1; no call returns Some(0)
C10_EscapesAtOne ==
    EscapeReturned =>
        /\ (et_limit >= 2 /\ Escaped(et_c)) => et_ret = Some(1)
        /\ (et_limit = 1 /\ Escaped(et_c)) => et_ret = None
        /\ et_ret /= Some(0)

\* C10's case: a point outside the circle of radius 2, under the limit 255
C10_Witness ==
    /\ EscapeReturned
    /\ et_limit = Limit
    /\ Escaped(et_c)
    /\ et_ret = Some(1)

-----------------------------------------------------------------------------
(* Properties of pixel_to_point (SpecPoint) *)

\* the f64 that is -1/2
MinusHalf == Canon(-1, -1)

-----------------------------------------------------------------------------
(* Properties of render (SpecRender) *)

Width == r_args.bounds[1]

Height == r_args.bounds[2]

\* the call k of render has returned
Returned(k) == (r_call = k /\ r_pc = "returned") \/ r_call > k

\* what escape_time says of the point of pixel (column, row)
EscapeOfPixel(column, row) ==
    escape_time_at_limit(pixel_to_point(r_args.bounds, <<column, row>>,
                                        r_args.upper_left, r_args.lower_right))

Range(s) == {s[i] : i \in 1..Len(s)}

\* C1: when render returns, pixels.len() being width * height, the slot
\* row * width + column of every pixel (column, row) holds 0 if escape_time
\* of the pixel's point, with limit 255, is None, and 255 - i, with i < 255
\* (nothing is truncated, nothing wraps), if it is Some(i).
C1_RenderedBytes ==
    \A k \in 1..2 :
        Returned(k) =>
            /\ Len(r_pixels[k]) = Width * Height
            /\ \A column \in 0..(Width - 1), row \in 0..(Height - 1) :
                  LET et == EscapeOfPixel(column, row)
                      slot == r_pixels[k][row * Width + column + 1]
                  IN  /\ et.tag = "None" => slot = 0
                      /\ et.tag = "Some" =>
                            /\ et.val < 255
                            /\ slot = 255 - et.val
                            /\ slot \in 1..255

\* C1's case: a returned call on a 2 x 2 image with pixels in the set and
\* pixels that left the circle after one and after two updates
C1_Witness ==
    /\ Returned(1)
    /\ Width = 2 /\ Height = 2
    /\ {0, 253, 254} \subseteq Range(r_pixels[1])

\* C5: a call of render with pixels.len() /= width * height panics at the
\* assertion: the loops are never entered, no pixel is computed and no byte
\* of the buffer is written.
C5_MismatchAborts ==
    (r_call \in 1..2 /\ Len(r_pixels[r_call]) /= Width * Height) =>
        /\ r_pc \in {"enter", "panicked"}
        /\ r_pixels = r_prior
        /\ r_row = 0 /\ r_column = 0

\* C5's case: render has panicked on a buffer one byte too long for an
\* image that has pixels
C5_Witness ==
    /\ r_pc = "panicked"
    /\ Width * Height > 0
    /\ Len(r_pixels[1]) = Width * Height + 1
    /\ r_pixels = r_prior

\* C7: two calls of render with the same bounds and viewport leave their
\* buffers byte-identical whatever the buffers held before; every slot holds
\* the rendered byte (it keeps its prior value only if that is the rendered
\* byte), and the buffers keep their lengths.
C7_Deterministic ==
    (Returned(1) /\ Returned(2)) =>
        /\ r_pixels[1] = r_pixels[2]
        /\ \A k \in 1..2 :
              /\ Len(r_pixels[k]) = Len(r_prior[k])
              /\ \A column \in 0..(Width - 1), row \in 0..(Height - 1) :
                    LET i == row * Width + column + 1
                    IN  r_pixels[k][i] = r_prior[k][i] =>
                            r_prior[k][i] = pixel_value(EscapeOfPixel(column, row))

\* C7's case: both calls have returned, on buffers that differed before, one
\* of them zeroed, for an image with pixels in the set and pixels outside
C7_Witness ==
    /\ Returned(1) /\ Returned(2)
    /\ Width * Height >= 2
    /\ r_prior[1] /= r_prior[2]
    /\ 0 \in Range(r_prior[1])
    /\ 0 \in Range(r_pixels[2])
    /\ 254 \in Range(r_pixels[2])

-----------------------------------------------------------------------------
(* Properties of render on row bands (SpecBands) *)

AllReturned == \A k \in Workers : b_pc[k] = "returned"

\* the slots of the rows of band k
BandSlots(k) ==
    (band_top(b_tops, k) * b_args.bounds[1])
        .. ((band_top(b_tops, k) + band_height(b_tops, k)) * b_args.bounds[1] - 1)

\* the band that holds a row of the image
BandOf(row) ==
    CHOOSE k \in 1..(Len(b_tops) - 1) : b_tops[k] <= row /\ row < b_tops[k + 1]

\* the point of a pixel of the image in the one call over the whole image
WholePoint(column, row) ==
    pixel_to_point(b_args.bounds, <<column, row>>, b_args.upper_left, b_args.lower_right)

\* the point of the same pixel in the call of the worker of its band
BandPoint(column, row) ==
    LET k == BandOf(row)
    IN  pixel_to_point(call_bounds(b_args, b_tops, k),
                       <<column, row - band_top(b_tops, k)>>,
                       call_upper_left(b_args, b_tops, k),
                       call_lower_right(b_args, b_tops, k))

Pixels == (0..(b_args.bounds[1] - 1)) \X (0..(b_args.bounds[2] - 1))

Slot(px) == px[2] * b_args.bounds[1] + px[1] + 1

\* C6 as stated: for every cut of the rows into contiguous bands, once every
\* worker has rendered its band into its slice, in whatever order the
\* workers' writes interleave, the buffer equals, byte for byte, the buffer
\* of one call of render on the whole image; no worker writes a slot
\* outside its band.
C6_BandsEqualWhole ==
    /\ AllReturned => b_pixels = b_whole
    /\ \A wr \in b_writes : wr[2] \in BandSlots(wr[1])

\* C6 amended: for every cut of the rows into contiguous bands and every
\* interleaving of the workers' writes, no worker writes a slot outside its
\* band and no call panics; once every worker has returned, the slot of
\* every pixel holds the byte of the point the band's call maps the pixel
\* to, which is the byte of the one call on the whole image wherever the
\* two calls map the pixel to the same point.
C6_BandsEqualAtSamePoints ==
    /\ \A wr \in b_writes : wr[2] \in BandSlots(wr[1])
    /\ \A k \in Workers : b_pc[k] /= "panicked"
    /\ AllReturned =>
          /\ Len(b_pixels) = Len(b_whole)
          /\ \A px \in Pixels :
                /\ b_pixels[Slot(px)] =
                      pixel_value(escape_time_at_limit(BandPoint(px[1], px[2])))
                /\ BandPoint(px[1], px[2]) = WholePoint(px[1], px[2])
                      => b_pixels[Slot(px)] = b_whole[Slot(px)]

\* C6's case: the bands of an image are done, one of them two rows high;
\* the second row of that band maps to the points of the one call, and the
\* buffers are equal, with pixels in the set and pixels outside
C6_Witness ==
    /\ AllReturned
    /\ Len(b_tops) >= 3
    /\ b_args.bounds[1] >= 2
    /\ \E k \in 1..(Len(b_tops) - 1) :
          /\ band_height(b_tops, k) >= 2
          /\ \A column \in 0..(b_args.bounds[1] - 1) :
                BandPoint(column, band_top(b_tops, k) + 1)
                    = WholePoint(column, band_top(b_tops, k) + 1)
    /\ b_pixels = b_whole
    /\ {0, 254} \subseteq Range(b_pixels)
    /\ Cardinality(b_writes) = Len(b_pixels)

-----------------------------------------------------------------------------
(* Properties of parse_pair and parse_complex (SpecParse) *)

PairReturned == ps_ret.out.tag /= "NoCall"

\* where the separator occurs in s
Occurrences(s, separator) ==
    {i \in 0..(Len(s) - Len(separator)) : Bytes(s, i, i + Len(separator)) = separator}

First(s, separator) ==
    CHOOSE i \in Occurrences(s, separator) : \A j \in Occurrences(s, separator) : i <= j

\* the substring before the first occurrence of the separator, and the
\* substring after that occurrence
Before(s, separator) == Bytes(s, 0, First(s, separator))

After(s, separator) == Bytes(s, First(s, separator) + Len(separator), Len(s))

\* C4 as stated: parse_pair returns a pair only if the separator occurs
\* exactly once and both substrings parse, the pair being (before, after);
\* it returns None when s has no separator, and when a substring fails to
\* parse.  (The last part is read on one-byte separators: what parse_pair
\* does on a separator of several bytes is the subject of C8.)
C4_ExactlyOnce ==
    PairReturned =>
        LET occ == Occurrences(ps_s, ps_sep)
            out == ps_ret.out
        IN  /\ out.tag = "Some" =>
                  /\ Cardinality(occ) = 1
                  /\ from_str(ps_ret.T, Before(ps_s, ps_sep)) = Ok(out.val[1])
                  /\ from_str(ps_ret.T, After(ps_s, ps_sep)) = Ok(out.val[2])
            /\ occ = {} => out = None
            /\ (occ /= {} /\ Len(ps_sep) = 1
                  /\ (from_str(ps_ret.T, Before(ps_s, ps_sep)).tag = "Err"
                      \/ from_str(ps_ret.T, After(ps_s, ps_sep)).tag = "Err"))
                 => out = None

\* C4 amended: parse_pair returns a pair only if the separator occurs in s
\* and the substring before its first occurrence and the substring after it
\* both parse, the pair being (before, after); the separator may occur again
\* in the second substring.  It returns None when s has no separator, and
\* never returns a pair when a substring fails to parse.
C4_FirstOccurrence ==
    PairReturned =>
        LET occ == Occurrences(ps_s, ps_sep)
            out == ps_ret.out
        IN  /\ out.tag = "Some" =>
                  /\ occ /= {}
                  /\ from_str(ps_ret.T, Before(ps_s, ps_sep)) = Ok(out.val[1])
                  /\ from_str(ps_ret.T, After(ps_s, ps_sep)) = Ok(out.val[2])
            /\ occ = {} => out = None
            /\ (occ /= {}
                  /\ (from_str(ps_ret.T, Before(ps_s, ps_sep)).tag = "Err"
                      \/ from_str(ps_ret.T, After(ps_s, ps_sep)).tag = "Err"))
                 => out.tag /= "Some"
            /\ (ps_s = <<49, 48, 44, 50, 48>> /\ ps_sep = <<44>> /\ ps_ret.T = "i32")
                 => out = Some(<<10, 20>>)

\* C4's case: parse_pair::<i32>("1--1", '-') has returned (1, -1), the
\* separator occurring twice
C4_Witness ==
    /\ PairReturned
    /\ ps_ret.T = "i32"
    /\ ps_s = <<49, 45, 45, 49>>
    /\ ps_sep = <<45>>
    /\ ps_ret.out = Some(<<1, -1>>)

\* C8: parse_pair(s, separator) and parse_complex(s) end by returning a
\* value or None, for every s and every separator: they never panic.
C8_NeverPanics ==
    /\ ps_ret.out.tag /= "Panic"
    /\ pc_ret.tag /= "Panic"

ComplexReturned == pc_ret.tag /= "NoCall"

\* the f64 values 1.25 and -0.0625
OneAndQuarter == Canon(5, -2)

MinusSixteenth == Canon(-1, -4)

\* C11: parse_complex(s) returns a complex number exactly when
\* parse_pair::<f64>(s, ',') returns a pair (a, b), and the number then has
\* real part a and imaginary part b; when parse_pair returns None,
\* parse_complex returns None.  "1.25,-0.0625" gives 1.25 - 0.0625i and
\* ",-0.0625" gives None.
C11_ComplexIffPair ==
    ComplexReturned =>
        LET pair == parse_pair("f64", ps_s, <<44>>)
        IN  /\ pc_ret.tag \in {"Some", "None"}
            /\ pc_ret.tag = "Some" <=> pair.tag = "Some"
            /\ pair.tag = "Some" =>
                  /\ pc_ret.val.re = pair.val[1]
                  /\ pc_ret.val.im = pair.val[2]
            /\ pair = None => pc_ret = None
            /\ (ps_ret.T = "f64" /\ ps_sep = <<44>>) =>
                  /\ ps_ret.out = None => pc_ret = None
                  /\ ps_ret.out.tag = "Some" =>
                        pc_ret = Some(Complex(ps_ret.out.val[1], ps_ret.out.val[2]))
            /\ ps_s = <<49, 46, 50, 53, 44, 45, 48, 46, 48, 54, 50, 53>>
                  => pc_ret = Some(Complex(OneAndQuarter, MinusSixteenth))
            /\ ps_s = <<44, 45, 48, 46, 48, 54, 50, 53>> => pc_ret = None

\* C11's case: parse_complex and parse_pair::<f64> with ',' have both
\* returned on "1.25,-0.0625", with distinct real and imaginary parts
C11_Witness ==
    /\ ComplexReturned
    /\ ps_s = <<49, 46, 50, 53, 44, 45, 48, 46, 48, 54, 50, 53>>
    /\ ps_ret.T = "f64"
    /\ ps_sep = <<44>>
    /\ ps_ret.out = Some(<<OneAndQuarter, MinusSixteenth>>)
    /\ pc_ret = Some(Complex(OneAndQuarter, MinusSixteenth))

=============================================================================
